---- MODULE Spec2Model ----
(***************************************************************************)
(* Dialogue state machine of connect-volunteers-bot (src/src/main.rs).     *)
(*                                                                         *)
(* One chat (one session key) is modelled.  The state is the dialogue      *)
(* stored in Redis for that chat, the rows appended to the spreadsheets,   *)
(* and the latest handler invocations.  A handler is an async fn whose     *)
(* side effects are awaited one after the other, each followed by `?`: it  *)
(* is modelled as the sequence of effects it performs for the state that   *)
(* was loaded and the message that was received, executed one effect at a  *)
(* time; a failing effect ends the handler with Err and skips the rest.    *)
(*                                                                         *)
(* The Ukrainian string literals of the source are written here as ASCII   *)
(* strings; each definition names the line of the literal it stands for.   *)
(***************************************************************************)
EXTENDS Naturals, Sequences, FiniteSets

VARIABLES
    store,         \* the State kept by RedisStorage for the chat
    sheet,         \* the values_append requests that succeeded, in order
    chat_private,  \* msg.chat.is_private() of the chat
    handlers,      \* handler invocations: slot -> record (see IdleHandler)
    nevents,       \* number of updates dispatched so far
    pass_rows,     \* history: rows appended since the current intake round began
    intake         \* history: the category token of the current intake round and
                   \* the texts whose field step stored a State since then

vars == <<store, sheet, chat_private, handlers, nevents, pass_rows, intake>>

(***************************************************************************)
(* Bounds of the model.                                                    *)
(***************************************************************************)
MaxEvents == 8          \* updates dispatched in a run of Spec
MaxKept == 2            \* handler records kept: the latest updates of the chat
MaxMalformedEvents == 4 \* updates dispatched in a run of SpecMalformed

(***************************************************************************)
(* Option<T>: None is the empty sequence, Some(x) the one-element one.     *)
(***************************************************************************)
None == <<>>
Some(x) == <<x>>
Unwrap(o) == o[1]

(***************************************************************************)
(* Text tokens the handlers match on.                                      *)
(***************************************************************************)
OfferHelp == "I can help"                          \* main.rs:140
RequestHelp == "I need help"                       \* main.rs:152
Driver == "I am a driver with my own car"          \* main.rs:184
UsefulContacts == "Useful contacts"                \* main.rs:192
CollectHelp == "I can collect humanitarian or financial help"  \* main.rs:200
Evacuation == "Evacuation"                         \* main.rs:240
NeedHumanitarian == "Humanitarian help needed"     \* main.rs:248
Yes == "Yes, send the information to volunteers"   \* main.rs:380
No == "No, start over"                             \* main.rs:381

\* Texts a participant may send: every token, and two free texts.
Texts == {OfferHelp, RequestHelp, Driver, UsefulContacts, CollectHelp,
          Evacuation, NeedHumanitarian, Yes, No, "Jane Doe", "-"}
\* Texts a participant sends while a field of the contact is being asked for.
FieldTexts == {"Jane Doe", "-", Yes, No}

(***************************************************************************)
(* enum HelpKind, struct Contact, enum State.                              *)
(***************************************************************************)
HelpKind == {"ProvidingDriver", "ProvidingUsefulContact",
             "ProvidingCollectingHumanitarianHelp",
             "NeedEvacuation", "NeedHumanitarianHelp"}

\* Contact::default(): every field None.
DefaultContact ==
    [full_name |-> None, address |-> None, phone_numbers |-> None, comments |-> None]

Start == [tag |-> "Start"]
AwaitingKindOfHelpProviding == [tag |-> "AwaitingKindOfHelpProviding"]
AwaitingKindOfHelpWanted == [tag |-> "AwaitingKindOfHelpWanted"]
AwaitingContactInformation(help_kind, contact) ==
    [tag |-> "AwaitingContactInformation", help_kind |-> help_kind, contact |-> contact]

\* impl Default for State
StateDefault == Start

(***************************************************************************)
(* The effects a handler awaits.                                           *)
(***************************************************************************)
Update(s) == [op |-> "update", state |-> s]                 \* dialogue.update(s).await?
Send(text, markup) == [op |-> "send", text |-> text, markup |-> markup]
                                                            \* bot.send_message(..).await?
Save(contact, help_kind) == [op |-> "save", contact |-> contact, help_kind |-> help_kind]
                                                            \* contact.save(..).await?

\* reply_markup values
NoMarkup == <<>>
KeyboardRemove == <<"KeyboardRemove">>
KeyboardMarkup(buttons) == <<"KeyboardMarkup">> \o buttons

\* fn start_keyboard()
start_keyboard == KeyboardMarkup(<<OfferHelp, RequestHelp>>)

providing_keyboard == KeyboardMarkup(<<Driver, CollectHelp, UsefulContacts>>)
wanted_keyboard == KeyboardMarkup(<<Evacuation, NeedHumanitarian>>)
confirm_keyboard == KeyboardMarkup(<<Yes, No>>)

\* Reply texts: a sequence of pieces, so that format! is concatenation.
ProvidingMenuText == <<"We coordinate drivers, humanitarian help and useful contacts. Choose one.">>
WantedMenuText == <<"We coordinate requests for evacuation and humanitarian help.">>
StartMenuText == <<"Choose 'I can help' or 'I need help'">>
FullNamePrompt == <<"Your full name?">>
PhonePrompt == <<"Contact phone numbers?">>
AddressPrompt == <<"Address?">>
CommentPrompt == <<"Additional comment? (if none, send a message with the text '-')">>
ConfirmRepromptText == <<"Do you want to send the request to volunteers? (send only Yes or No)">>
ThanksText == <<"Thank you! Your information was sent to volunteers.">>
CancelledText == <<"OK, your request is cancelled. You can start again.">>
confirmation_msg(full_name, phone_numbers, address, comments) ==
    <<"This is the information we collected: full name: ", full_name,
      " phone numbers: ", phone_numbers, " address: ", address,
      " comment: ", comments, " Do you want to send this request to volunteers?">>

(***************************************************************************)
(* The handlers.  Each yields the effects it awaits, in order, for the     *)
(* message msg = [text: Option<String>, private: bool].                    *)
(***************************************************************************)

\* handle_start with the reply sent before the state is stored.
handle_start_reply_first(msg) ==
    IF ~msg.private THEN <<>>
    ELSE IF msg.text = Some(OfferHelp) THEN
        <<Send(ProvidingMenuText, providing_keyboard), Update(AwaitingKindOfHelpProviding)>>
    ELSE IF msg.text = Some(RequestHelp) THEN
        <<Send(WantedMenuText, wanted_keyboard), Update(AwaitingKindOfHelpWanted)>>
    ELSE
        <<Send(StartMenuText, start_keyboard)>>

\* handle_start with the two menus taken for each other.
handle_start_swapped_menus(msg) ==
    IF ~msg.private THEN <<>>
    ELSE IF msg.text = Some(OfferHelp) THEN
        <<Update(AwaitingKindOfHelpWanted), Send(WantedMenuText, wanted_keyboard)>>
    ELSE IF msg.text = Some(RequestHelp) THEN
        <<Update(AwaitingKindOfHelpProviding), Send(ProvidingMenuText, providing_keyboard)>>
    ELSE
        <<Send(StartMenuText, start_keyboard)>>

\* handle_start without the check that the chat is private.
handle_start_any_chat(msg) ==
    IF msg.text = Some(OfferHelp) THEN
        <<Update(AwaitingKindOfHelpProviding), Send(ProvidingMenuText, providing_keyboard)>>
    ELSE IF msg.text = Some(RequestHelp) THEN
        <<Update(AwaitingKindOfHelpWanted), Send(WantedMenuText, wanted_keyboard)>>
    ELSE
        <<Send(StartMenuText, start_keyboard)>>

\* async fn handle_start
handle_start(msg) ==
    IF ~msg.private THEN <<>>
    ELSE IF msg.text = Some(OfferHelp) THEN
        <<Update(AwaitingKindOfHelpProviding), Send(ProvidingMenuText, providing_keyboard)>>
    ELSE IF msg.text = Some(RequestHelp) THEN
        <<Update(AwaitingKindOfHelpWanted), Send(WantedMenuText, wanted_keyboard)>>
    ELSE
        <<Send(StartMenuText, start_keyboard)>>

\* handle_awaiting_kind_of_help_providing with two categories taken for each other.
handle_awaiting_kind_of_help_providing_swapped(msg) ==
    IF msg.text = Some(Driver) THEN
        <<Update(AwaitingContactInformation("ProvidingDriver", None)),
          Send(FullNamePrompt, KeyboardRemove)>>
    ELSE IF msg.text = Some(UsefulContacts) THEN
        <<Update(AwaitingContactInformation("ProvidingCollectingHumanitarianHelp", None)),
          Send(FullNamePrompt, KeyboardRemove)>>
    ELSE IF msg.text = Some(CollectHelp) THEN
        <<Update(AwaitingContactInformation("ProvidingUsefulContact", None)),
          Send(FullNamePrompt, KeyboardRemove)>>
    ELSE
        <<Send(ProvidingMenuText, providing_keyboard)>>

\* async fn handle_awaiting_kind_of_help_providing
handle_awaiting_kind_of_help_providing(msg) ==
    IF msg.text = Some(Driver) THEN
        <<Update(AwaitingContactInformation("ProvidingDriver", None)),
          Send(FullNamePrompt, KeyboardRemove)>>
    ELSE IF msg.text = Some(UsefulContacts) THEN
        <<Update(AwaitingContactInformation("ProvidingUsefulContact", None)),
          Send(FullNamePrompt, KeyboardRemove)>>
    ELSE IF msg.text = Some(CollectHelp) THEN
        <<Update(AwaitingContactInformation("ProvidingCollectingHumanitarianHelp", None)),
          Send(FullNamePrompt, KeyboardRemove)>>
    ELSE
        <<Send(ProvidingMenuText, providing_keyboard)>>

\* async fn handle_awaitig_kind_of_help_wanted
handle_awaitig_kind_of_help_wanted(msg) ==
    IF msg.text = Some(Evacuation) THEN
        <<Update(AwaitingContactInformation("NeedEvacuation", None)),
          Send(FullNamePrompt, KeyboardRemove)>>
    ELSE IF msg.text = Some(NeedHumanitarian) THEN
        <<Update(AwaitingContactInformation("NeedHumanitarianHelp", None)),
          Send(FullNamePrompt, KeyboardRemove)>>
    ELSE
        <<Send(WantedMenuText, wanted_keyboard)>>

\* match arm `None`: the text becomes the full name.
capture_full_name(help_kind, msg_text) ==
    LET contact == [DefaultContact EXCEPT !.full_name = Some(msg_text)]
    IN  <<Update(AwaitingContactInformation(help_kind, Some(contact))),
          Send(PhonePrompt, NoMarkup)>>

\* capture_phone_numbers writing the text to the address field.
capture_phone_numbers_into_address(help_kind, contact, msg_text) ==
    LET c == [contact EXCEPT !.address = Some(msg_text)]
    IN  <<Update(AwaitingContactInformation(help_kind, Some(c))),
          Send(AddressPrompt, NoMarkup)>>

\* capture_phone_numbers storing a contact that holds the phone numbers alone.
capture_phone_numbers_drops_name(help_kind, contact, msg_text) ==
    LET c == [DefaultContact EXCEPT !.phone_numbers = Some(msg_text)]
    IN  <<Update(AwaitingContactInformation(help_kind, Some(c))),
          Send(AddressPrompt, NoMarkup)>>

\* match arm `Contact { phone_numbers: None, .. }`
capture_phone_numbers(help_kind, contact, msg_text) ==
    LET c == [contact EXCEPT !.phone_numbers = Some(msg_text)]
    IN  <<Update(AwaitingContactInformation(help_kind, Some(c))),
          Send(AddressPrompt, NoMarkup)>>

\* capture_address writing the text to the comments field.
capture_address_into_comments(help_kind, contact, msg_text) ==
    LET c == [contact EXCEPT !.comments = Some(msg_text)]
    IN  <<Update(AwaitingContactInformation(help_kind, Some(c))),
          Send(CommentPrompt, NoMarkup)>>

\* match arm `Contact { address: None, .. }`
capture_address(help_kind, contact, msg_text) ==
    LET c == [contact EXCEPT !.address = Some(msg_text)]
    IN  <<Update(AwaitingContactInformation(help_kind, Some(c))),
          Send(CommentPrompt, NoMarkup)>>

\* capture_comments appending the row as soon as the fourth field is set.
capture_comments_autocommit(help_kind, contact, msg_text) ==
    LET c == [contact EXCEPT !.comments = Some(msg_text)]
    IN  <<Save(c, help_kind),
          Update(AwaitingContactInformation(help_kind, Some(c))),
          Send(confirmation_msg(Unwrap(c.full_name), Unwrap(c.phone_numbers),
                                Unwrap(c.address), Unwrap(c.comments)),
               confirm_keyboard)>>

\* match arm with the first three fields Some and comments None
capture_comments(help_kind, contact, msg_text) ==
    LET c == [contact EXCEPT !.comments = Some(msg_text)]
    IN  IF /\ c.full_name # None /\ c.phone_numbers # None
           /\ c.address # None /\ c.comments # None
        THEN <<Update(AwaitingContactInformation(help_kind, Some(c))),
               Send(confirmation_msg(Unwrap(c.full_name), Unwrap(c.phone_numbers),
                                     Unwrap(c.address), Unwrap(c.comments)),
                    confirm_keyboard)>>
        ELSE <<>>

\* confirm_step dropping the collected contact on any text that is not Yes.
confirm_step_resets_on_other(help_kind, contact, msg_text) ==
    IF msg_text = Yes THEN
        <<Save(contact, help_kind), Update(Start), Send(ThanksText, start_keyboard)>>
    ELSE IF msg_text = No THEN
        <<Update(Start), Send(CancelledText, start_keyboard)>>
    ELSE
        <<Update(Start), Send(ConfirmRepromptText, NoMarkup)>>

\* confirm_step in the order store, reply, append.
confirm_step_append_last(help_kind, contact, msg_text) ==
    IF msg_text = Yes THEN
        <<Update(Start), Send(ThanksText, start_keyboard), Save(contact, help_kind)>>
    ELSE IF msg_text = No THEN
        <<Update(Start), Send(CancelledText, start_keyboard)>>
    ELSE
        <<Send(ConfirmRepromptText, NoMarkup)>>

\* match arm with all four fields Some: the confirmation step
confirm_step(help_kind, contact, msg_text) ==
    IF msg_text = Yes THEN
        <<Save(contact, help_kind), Update(Start), Send(ThanksText, start_keyboard)>>
    ELSE IF msg_text = No THEN
        <<Update(Start), Send(CancelledText, start_keyboard)>>
    ELSE
        <<Send(ConfirmRepromptText, NoMarkup)>>

\* The arm of `match contact` that a value takes (arms are tried in order).
contact_arm(contact) ==
    IF contact = None THEN "full_name"
    ELSE LET c == Unwrap(contact) IN
        IF c.phone_numbers = None THEN "phone_numbers"
        ELSE IF c.address = None THEN "address"
        ELSE IF c.full_name # None /\ c.comments = None THEN "comments"
        ELSE IF c.full_name # None /\ c.comments # None THEN "confirm"
        ELSE "unexpected"

\* async fn handle_awaiting_contact_information
handle_awaiting_contact_information(msg, help_kind, contact) ==
    IF msg.text = None THEN <<>>
    ELSE LET msg_text == Unwrap(msg.text)
             arm == contact_arm(contact)
         IN  IF arm = "full_name" THEN capture_full_name(help_kind, msg_text)
             ELSE IF arm = "phone_numbers" THEN
                 capture_phone_numbers(help_kind, Unwrap(contact), msg_text)
             ELSE IF arm = "address" THEN
                 capture_address(help_kind, Unwrap(contact), msg_text)
             ELSE IF arm = "comments" THEN
                 capture_comments(help_kind, Unwrap(contact), msg_text)
             ELSE IF arm = "confirm" THEN
                 confirm_step(help_kind, Unwrap(contact), msg_text)
             ELSE <<>>

\* dispatch_by::<State>(): the handler of the loaded state's variant.
dispatch(state, msg) ==
    IF state.tag = "Start" THEN handle_start(msg)
    ELSE IF state.tag = "AwaitingKindOfHelpProviding" THEN
        handle_awaiting_kind_of_help_providing(msg)
    ELSE IF state.tag = "AwaitingKindOfHelpWanted" THEN
        handle_awaitig_kind_of_help_wanted(msg)
    ELSE handle_awaiting_contact_information(msg, state.help_kind, state.contact)

(***************************************************************************)
(* Contact::save: the request handed to values_append.  The destination is *)
(* the spreadsheet of the category; the one row of values has five cells:  *)
(* the four fields and the time of the call, displayed in the zone +03:00. *)
(* The result is None when the function bails out on a contact that is not *)
(* complete.                                                               *)
(***************************************************************************)
spreadsheet_id(help_kind) ==
    CASE help_kind = "ProvidingDriver" -> "117bcR8cksBSNUFNP51AAdr9pNMlJsFhwXL0NcbtW99A"
      [] help_kind = "ProvidingUsefulContact" -> "1K69NNDU2YnHnI9QSPO9FcUgjFZw70uPjncKNYTTWKHM"
      [] help_kind = "ProvidingCollectingHumanitarianHelp" ->
             "1lfBO5dLNDW_ymL2aySJwtOqRAAttGaWp3QFPWYL5JlI"
      [] help_kind = "NeedEvacuation" -> "1as4OGhZLULiQFqjgbHqnbed2xbiA4fCBjyYRbXPzHCU"
      [] help_kind = "NeedHumanitarianHelp" -> "1MM-8rxEcoD0GGqdTmudgchqpLIcaTygTN1x95nNzpJE"

\* chrono::Utc::now(): an instant is a day number and an hour of that day, in UTC.
\* One of the two instants is in the last three hours of its day.
Instants == {[day |-> 1, hour |-> 1], [day |-> 1, hour |-> 22]}

\* .with_timezone(&FixedOffset::east(3 * 3600)): the same instant, three hours
\* ahead on the local clock.
with_timezone_east3(utc) ==
    IF utc.hour + 3 >= 24
    THEN [day |-> utc.day + 1, hour |-> utc.hour + 3 - 24, offset |-> "+03:00"]
    ELSE [day |-> utc.day, hour |-> utc.hour + 3, offset |-> "+03:00"]

\* format!("{}", date_time): the local date, the local time and the offset.
format_time(local) == <<local.day, local.hour, local.offset>>

\* Contact::save with the phone numbers and the address in each other's column.
save_swapped_columns(contact, help_kind, now) ==
    IF /\ contact.full_name # None /\ contact.phone_numbers # None
       /\ contact.address # None /\ contact.comments # None
    THEN Some([spreadsheet |-> spreadsheet_id(help_kind),
               range |-> "Sheet1",
               value_input_option |-> "USER_ENTERED",
               major_dimension |-> "ROWS",
               values |-> << <<Unwrap(contact.full_name), Unwrap(contact.address),
                               Unwrap(contact.phone_numbers), Unwrap(contact.comments),
                               format_time(with_timezone_east3(now))>> >>])
    ELSE None

save(contact, help_kind, now) ==
    IF /\ contact.full_name # None /\ contact.phone_numbers # None
       /\ contact.address # None /\ contact.comments # None
    THEN Some([spreadsheet |-> spreadsheet_id(help_kind),
               range |-> "Sheet1",
               value_input_option |-> "USER_ENTERED",
               major_dimension |-> "ROWS",
               values |-> << <<Unwrap(contact.full_name), Unwrap(contact.phone_numbers),
                               Unwrap(contact.address), Unwrap(contact.comments),
                               format_time(with_timezone_east3(now))>> >>])
    ELSE None

(***************************************************************************)
(* Handler invocations.                                                    *)
(*   pc    "idle" before the first update of the slot, "running" while     *)
(*         effects remain, "ok" / "err" once the handler returned          *)
(*   seq   the number of the update (1, 2, ...)                            *)
(*   msg   the message of the update                                       *)
(*   state the State loaded by enter_dialogue for this update              *)
(*   plan  the effects of the handler for (state, msg)                     *)
(*   ip    how many effects of plan have completed; when pc = "err",       *)
(*         plan[ip + 1] is the effect that failed                          *)
(***************************************************************************)
IdleHandler ==
    [pc |-> "idle", seq |-> 0, msg |-> [text |-> None, private |-> TRUE],
     state |-> StateDefault, plan |-> <<>>, ip |-> 0]

\* The texts a participant sends at the stored state.
Inputs(state, fieldTexts) ==
    IF state.tag = "AwaitingContactInformation"
       /\ contact_arm(state.contact) \in {"full_name", "phone_numbers", "address", "comments"}
    THEN {None} \cup {Some(t) : t \in fieldTexts}
    ELSE {None} \cup {Some(t) : t \in Texts}

\* The dispatcher takes an update of the chat: enter_dialogue loads the stored
\* State (the default when none is stored) and dispatch_by runs its handler.
Receive(w, limit, fieldTexts) ==
    /\ nevents < limit
    /\ handlers[w].pc # "running"
    /\ \E text \in Inputs(store, fieldTexts) :
         LET msg == [text |-> text, private |-> chat_private]
             plan == dispatch(store, msg)
         IN  handlers' = [handlers EXCEPT ![w] =
                 [pc |-> IF plan = <<>> THEN "ok" ELSE "running",
                  seq |-> nevents + 1, msg |-> msg, state |-> store,
                  plan |-> plan, ip |-> 0]]
    /\ nevents' = nevents + 1
    /\ UNCHANGED <<store, sheet, chat_private, pass_rows, intake>>

\* No intake round is open.
NoIntake == [token |-> None, texts |-> <<>>]

\* The effect the handler in slot w awaits next.
NextEffect(w) == handlers[w].plan[handlers[w].ip + 1]

Advance(w) ==
    handlers' = [handlers EXCEPT
        ![w].ip = @ + 1,
        ![w].pc = IF handlers[w].ip + 1 = Len(handlers[w].plan) THEN "ok" ELSE "running"]

Fail(w) == handlers' = [handlers EXCEPT ![w].pc = "err"]

\* dialogue.update(state).await succeeds: the State is stored.
DialogueUpdate(w) ==
    /\ handlers[w].pc = "running"
    /\ NextEffect(w).op = "update"
    /\ store' = NextEffect(w).state
    /\ pass_rows' = IF /\ NextEffect(w).state.tag = "AwaitingContactInformation"
                       /\ NextEffect(w).state.contact = None
                    THEN 0 ELSE pass_rows
    /\ intake' = IF NextEffect(w).state.tag # "AwaitingContactInformation" THEN NoIntake
                 ELSE IF NextEffect(w).state.contact = None
                      THEN [token |-> handlers[w].msg.text, texts |-> <<>>]
                 ELSE [intake EXCEPT !.texts = Append(@, handlers[w].msg.text)]
    /\ Advance(w)
    /\ UNCHANGED <<sheet, chat_private, nevents>>

\* dialogue.update(state).await fails: `?` returns the StorageError.
DialogueUpdateFail(w) ==
    /\ handlers[w].pc = "running"
    /\ NextEffect(w).op = "update"
    /\ Fail(w)
    /\ UNCHANGED <<store, sheet, chat_private, nevents, pass_rows, intake>>

\* bot.send_message(..).await succeeds.
SendMessage(w) ==
    /\ handlers[w].pc = "running"
    /\ NextEffect(w).op = "send"
    /\ Advance(w)
    /\ UNCHANGED <<store, sheet, chat_private, nevents, pass_rows, intake>>

\* bot.send_message(..).await fails: `?` returns the RequestError.
SendMessageFail(w) ==
    /\ handlers[w].pc = "running"
    /\ NextEffect(w).op = "send"
    /\ Fail(w)
    /\ UNCHANGED <<store, sheet, chat_private, nevents, pass_rows, intake>>

\* contact.save(..).await succeeds: the request, made at some instant, is
\* appended.
ContactSave(w) ==
    /\ handlers[w].pc = "running"
    /\ NextEffect(w).op = "save"
    /\ \E now \in Instants :
         LET req == save(NextEffect(w).contact, NextEffect(w).help_kind, now)
         IN  /\ req # None
             /\ sheet' = Append(sheet, Unwrap(req))
    /\ pass_rows' = pass_rows + 1
    /\ Advance(w)
    /\ UNCHANGED <<store, chat_private, nevents, intake>>

\* contact.save(..).await fails (bail, or the append request fails): no row.
ContactSaveFail(w) ==
    /\ handlers[w].pc = "running"
    /\ NextEffect(w).op = "save"
    /\ Fail(w)
    /\ UNCHANGED <<store, sheet, chat_private, nevents, pass_rows, intake>>

(***************************************************************************)
(* The dispatcher hands the updates of the chat to the handler chain one   *)
(* at a time: an update is taken when the handler of the one before has    *)
(* returned.                                                               *)
(* Spec: one record, of the latest handler.                                *)
(* SpecTurns: as Spec, with the slots used in turn, so that the record of  *)
(* the handler of the update before stays readable in the other slot.      *)
(***************************************************************************)
Slots == 1..MaxKept

Init ==
    /\ store = StateDefault
    /\ sheet = <<>>
    /\ chat_private \in BOOLEAN
    /\ handlers = [w \in Slots |-> IdleHandler]
    /\ nevents = 0
    /\ pass_rows = 0
    /\ intake = NoIntake

\* Spec uses slot 1 alone: an update is taken when the handler of the one
\* before has returned.
Next ==
    \/ Receive(1, MaxEvents, FieldTexts)
    \/ DialogueUpdate(1)
    \/ DialogueUpdateFail(1)
    \/ SendMessage(1)
    \/ SendMessageFail(1)
    \/ ContactSave(1)
    \/ ContactSaveFail(1)

\* An update is taken when every handler has returned; it goes to the next slot.
ReceiveInTurn(limit, fieldTexts) ==
    /\ \A w \in Slots : handlers[w].pc # "running"
    /\ Receive((nevents % MaxKept) + 1, limit, fieldTexts)

NextTurns ==
    \/ ReceiveInTurn(MaxEvents, FieldTexts)
    \/ \E w \in Slots : DialogueUpdate(w)
    \/ \E w \in Slots : DialogueUpdateFail(w)
    \/ \E w \in Slots : SendMessage(w)
    \/ \E w \in Slots : SendMessageFail(w)
    \/ \E w \in Slots : ContactSave(w)
    \/ \E w \in Slots : ContactSaveFail(w)

Spec == Init /\ [][Next]_vars
SpecTurns == Init /\ [][NextTurns]_vars

(***************************************************************************)
(* Vocabulary of the claims.                                               *)
(***************************************************************************)
Finished(h) == h.pc \in {"ok", "err"}
\* The op of the effect that failed, "none" when no effect failed.
FailedOp(h) == IF h.pc = "err" THEN h.plan[h.ip + 1].op ELSE "none"
\* How many effects were invoked (completed, or failed).
Invoked(h) == IF h.pc = "err" THEN h.ip + 1 ELSE h.ip
HasOp(h, op) == \E i \in 1..Len(h.plan) : h.plan[i].op = op
InvokedOp(h, op) == \E i \in 1..Invoked(h) : h.plan[i].op = op
CompletedOp(h, op) == \E i \in 1..h.ip : h.plan[i].op = op

FieldCount(contact) ==
    IF contact = None THEN 0
    ELSE LET c == Unwrap(contact)
         IN  Cardinality({f \in {"full_name", "phone_numbers", "address", "comments"} :
                            c[f] # None})
Collecting(state) == state.tag = "AwaitingContactInformation"
AtConfirmation(state) == Collecting(state) /\ FieldCount(state.contact) = 4
\* The populated fields are a prefix of (full_name, phone_numbers, address, comments).
IsPrefix(c) ==
    /\ c.phone_numbers # None => c.full_name # None
    /\ c.address # None => c.phone_numbers # None
    /\ c.comments # None => c.address # None
    /\ c.full_name # None
IsCapture(h) ==
    /\ Collecting(h.state)
    /\ h.msg.text # None
    /\ contact_arm(h.state.contact) \in {"full_name", "phone_numbers", "address", "comments"}
\* A text outside the token vocabulary of the state.
Unrecognized(state, msg) ==
    /\ msg.text # None
    /\ \/ state.tag = "Start" /\ Unwrap(msg.text) \notin {OfferHelp, RequestHelp}
       \/ state.tag = "AwaitingKindOfHelpProviding"
            /\ Unwrap(msg.text) \notin {Driver, UsefulContacts, CollectHelp}
       \/ state.tag = "AwaitingKindOfHelpWanted"
            /\ Unwrap(msg.text) \notin {Evacuation, NeedHumanitarian}
       \/ AtConfirmation(state) /\ Unwrap(msg.text) \notin {Yes, No}

(***************************************************************************)
(* C1 (as claimed; refuted): within one pass through the four field steps  *)
(* at most one row is appended, whatever fails and whatever is sent again. *)
(***************************************************************************)
C1_AtMostOneAppendPerRecord == pass_rows <= 1

(***************************************************************************)
(* C2 (as claimed; refuted): once the handler of Yes or No at the          *)
(* confirmation step has returned, the stored state is Start, whether the  *)
(* append succeeded or failed (a failure of the store itself set aside).   *)
(***************************************************************************)
C2_IdleAfterCommitOrDecline ==
    \A w \in Slots :
        LET h == handlers[w] IN
        (/\ Finished(h)
         /\ AtConfirmation(h.state)
         /\ h.msg.text \in {Some(Yes), Some(No)}
         /\ FailedOp(h) # "update")
        => store = Start

(***************************************************************************)
(* C3: two updates of the chat submitted together, each capturing a field, *)
(* are handled one after the other.  The two handlers never start from the *)
(* same loaded state: the second loads the state the first stored.  When   *)
(* both have returned Ok and no later update was taken, the stored state   *)
(* has the category of the round and both captures, each text in the field *)
(* of its step, on top of the fields the first handler loaded.             *)
(***************************************************************************)
\* h1 and h2 handled two consecutive updates, each capturing a field.
ConsecutiveCaptures(h1, h2) ==
    /\ h1.pc # "idle" /\ h2.pc # "idle"
    /\ IsCapture(h1) /\ IsCapture(h2)
    /\ h2.seq = h1.seq + 1

C4_CommitIffConfirmedYes ==
    \A w \in Slots :
        LET h == handlers[w]
            commit == AtConfirmation(h.state) /\ h.msg.text = Some(Yes)
        IN  /\ h.pc # "idle" => (HasOp(h, "save") <=> commit)
            /\ InvokedOp(h, "save") => commit
            /\ Finished(h) /\ commit => InvokedOp(h, "save")

C4_Witness ==
    \E w \in Slots :
        /\ handlers[w].pc = "ok"
        /\ CompletedOp(handlers[w], "save")
        /\ Len(sheet) = 1

(***************************************************************************)
(* C5: the stored contact of a collecting state is always a prefix of      *)
(* (full_name, phone_numbers, address, comments), and no handler ever      *)
(* loads a contact that takes the catch-all arm.                           *)
(***************************************************************************)
C5_FieldsFormPrefix ==
    /\ Collecting(store) /\ store.contact # None => IsPrefix(Unwrap(store.contact))
    /\ \A w \in Slots :
         handlers[w].pc # "idle" /\ Collecting(handlers[w].state)
         => contact_arm(handlers[w].state.contact) # "unexpected"

C5_Witness ==
    /\ Collecting(store)
    /\ FieldCount(store.contact) = 3
    /\ \E w \in Slots : handlers[w].pc = "ok" /\ FieldCount(handlers[w].state.contact) = 2

(***************************************************************************)
(* C6 (as claimed; refuted): when dialogue.update fails, the handler has   *)
(* sent no reply and appended no row, and the stored state is the one it   *)
(* loaded.                                                                 *)
(***************************************************************************)
C6_StoreFailureLeavesEventUnprocessed ==
    \A w \in Slots :
        LET h == handlers[w] IN
        FailedOp(h) = "update"
        => /\ ~CompletedOp(h, "send")
           /\ ~CompletedOp(h, "save")
           /\ store = h.state

(***************************************************************************)
(* C7: whenever a handler that changes the state invokes send_message      *)
(* (whether the send succeeds or fails), its dialogue.update has already   *)
(* completed and the store holds the next state.                           *)
(***************************************************************************)
C7_PersistBeforeReply ==
    \A w \in Slots :
        LET h == handlers[w] IN
        \A i \in 1..Len(h.plan) :
            (/\ h.plan[i].op = "send"
             /\ HasOp(h, "update")
             /\ \/ i <= Invoked(h)
                \/ h.pc = "running" /\ i = h.ip + 1)
            => \E j \in 1..h.ip :
                 /\ j < i
                 /\ h.plan[j].op = "update"
                 /\ store = h.plan[j].state

C7_Witness ==
    \E w \in Slots :
        /\ FailedOp(handlers[w]) = "send"
        /\ CompletedOp(handlers[w], "update")
        /\ store # handlers[w].state

(***************************************************************************)
(* C8 (as claimed; refuted): Contact::save is invoked only after the       *)
(* handler's dialogue.update and then its send_message have completed.     *)
(***************************************************************************)
C8_PersistReplyThenAppend ==
    \A w \in Slots :
        LET h == handlers[w] IN
        \A i \in 1..Invoked(h) :
            h.plan[i].op = "save"
            => \E j \in 1..h.ip : \E k \in 1..h.ip :
                 /\ j < k /\ k < i
                 /\ h.plan[j].op = "update"
                 /\ h.plan[k].op = "send"

(***************************************************************************)
(* C9 (as claimed; refuted): when Yes is handled at the confirmation step  *)
(* and Contact::save fails, the participant has still been sent the        *)
(* acknowledgment with the start keyboard.                                 *)
(***************************************************************************)
C9_SinkFailureStillAcknowledged ==
    \A w \in Slots :
        LET h == handlers[w] IN
        (/\ Finished(h)
         /\ AtConfirmation(h.state)
         /\ h.msg.text = Some(Yes)
         /\ FailedOp(h) = "save")
        => \E i \in 1..h.ip : h.plan[i] = Send(ThanksText, start_keyboard)

(***************************************************************************)
(* C10: a handler given a text outside the vocabulary of the state it      *)
(* loaded (Start, the two menus, the confirmation step) invokes neither    *)
(* dialogue.update nor Contact::save, and the stored state stays the one   *)
(* it loaded.                                                              *)
(***************************************************************************)
C10_UnrecognizedInputIsNoOp ==
    \A w \in Slots :
        LET h == handlers[w] IN
        h.pc # "idle" /\ Unrecognized(h.state, h.msg)
        => /\ ~HasOp(h, "update")
           /\ ~HasOp(h, "save")
           /\ store = h.state

C10_Witness ==
    \E w \in Slots :
        /\ handlers[w].pc = "ok"
        /\ AtConfirmation(handlers[w].state)
        /\ Unrecognized(handlers[w].state, handlers[w].msg)
        /\ CompletedOp(handlers[w], "send")
        /\ store = handlers[w].state

(***************************************************************************)
(* C11 (as claimed; refuted): the reply to a text outside the vocabulary   *)
(* of the loaded state is the prompt of that step with its keyboard: the   *)
(* top-level menu in Start, the menu of the selecting state, and at the    *)
(* confirmation step the question and the Yes/No keyboard that were sent   *)
(* when the step was entered.                                              *)
(***************************************************************************)
\* The reply sent when the step of `state` is entered.
StepPrompt(state) ==
    IF state.tag = "Start" THEN Send(StartMenuText, start_keyboard)
    ELSE IF state.tag = "AwaitingKindOfHelpProviding"
        THEN Send(ProvidingMenuText, providing_keyboard)
    ELSE IF state.tag = "AwaitingKindOfHelpWanted"
        THEN Send(WantedMenuText, wanted_keyboard)
    ELSE LET c == Unwrap(state.contact)
         IN  Send(confirmation_msg(Unwrap(c.full_name), Unwrap(c.phone_numbers),
                                   Unwrap(c.address), Unwrap(c.comments)),
                  confirm_keyboard)

C11_UnrecognizedInputRepeatsPrompt ==
    \A w \in Slots :
        LET h == handlers[w] IN
        (/\ h.pc # "idle"
         /\ h.msg.private
         /\ Unrecognized(h.state, h.msg))
        => h.plan = <<StepPrompt(h.state)>>

(***************************************************************************)
(* C12 (as claimed; refuted): an update without text is ignored in every   *)
(* state: its handler stores nothing and sends nothing.                    *)
(***************************************************************************)
C12_NonTextIsIgnored ==
    \A w \in Slots :
        LET h == handlers[w] IN
        h.pc # "idle" /\ h.msg.text = None => h.plan = <<>>

(***************************************************************************)
(* C13: when Contact::save has appended a row, the row is in the           *)
(* spreadsheet of the category whose token opened the intake round, and    *)
(* its first four cells are the four texts of the field steps since then,  *)
(* in the order full name, phone numbers, address, comment, followed by    *)
(* one cell, the time of the append in the zone +03:00; the handler passed *)
(* that category and those texts to Contact::save.                         *)
(***************************************************************************)
\* The cells of the one row of an appended request.
Cells(req) == req.values[1]
\* The request appends one row of five cells to Sheet1, the fifth a time
\* displayed in the zone +03:00.
RowShape(req) ==
    /\ req.range = "Sheet1"
    /\ req.value_input_option = "USER_ENTERED"
    /\ req.major_dimension = "ROWS"
    /\ Len(req.values) = 1
    /\ Len(Cells(req)) = 5
    /\ \E now \in Instants :
         /\ Cells(req)[5][1] = IF now.hour >= 21 THEN now.day + 1 ELSE now.day
         /\ Cells(req)[5][2] = (now.hour + 3) % 24
         /\ Cells(req)[5][3] = "+03:00"
CategoryOfToken(token) ==
    CASE token = Driver -> "ProvidingDriver"
      [] token = UsefulContacts -> "ProvidingUsefulContact"
      [] token = CollectHelp -> "ProvidingCollectingHumanitarianHelp"
      [] token = Evacuation -> "NeedEvacuation"
      [] token = NeedHumanitarian -> "NeedHumanitarianHelp"
      [] OTHER -> "none"
DestinationOfCategory(category) ==
    CASE category = "ProvidingDriver" -> "117bcR8cksBSNUFNP51AAdr9pNMlJsFhwXL0NcbtW99A"
      [] category = "ProvidingUsefulContact" -> "1K69NNDU2YnHnI9QSPO9FcUgjFZw70uPjncKNYTTWKHM"
      [] category = "ProvidingCollectingHumanitarianHelp" ->
             "1lfBO5dLNDW_ymL2aySJwtOqRAAttGaWp3QFPWYL5JlI"
      [] category = "NeedEvacuation" -> "1as4OGhZLULiQFqjgbHqnbed2xbiA4fCBjyYRbXPzHCU"
      [] category = "NeedHumanitarianHelp" -> "1MM-8rxEcoD0GGqdTmudgchqpLIcaTygTN1x95nNzpJE"
      [] OTHER -> "none"
\* The handler's last completed effect is the append.
JustAppended(h) == h.ip >= 1 /\ h.plan[h.ip].op = "save"

C13_RowIsTheCollectedRecord ==
    \A w \in Slots :
        LET h == handlers[w] IN
        JustAppended(h)
        => /\ sheet # <<>>
           /\ intake.token # None
           /\ Len(intake.texts) = 4
           /\ \A i \in 1..4 : intake.texts[i] # None
           /\ LET category == CategoryOfToken(Unwrap(intake.token))
                  row == sheet[Len(sheet)]
                  sent == h.plan[h.ip]
              IN  /\ sent.help_kind = category
                  /\ sent.contact.full_name = intake.texts[1]
                  /\ sent.contact.phone_numbers = intake.texts[2]
                  /\ sent.contact.address = intake.texts[3]
                  /\ sent.contact.comments = intake.texts[4]
                  /\ row.spreadsheet = DestinationOfCategory(category)
                  /\ RowShape(row)
                  /\ SubSeq(Cells(row), 1, 4) =
                         <<Unwrap(intake.texts[1]), Unwrap(intake.texts[2]),
                           Unwrap(intake.texts[3]), Unwrap(intake.texts[4])>>

C13_Witness ==
    \E w \in Slots :
        /\ JustAppended(handlers[w])
        /\ intake.token = Some(Evacuation)
        /\ intake.texts = <<Some("Jane Doe"), Some(Yes), Some(No), Some("-")>>
        /\ Len(sheet) = 1
        /\ Cells(sheet[1])[5] = <<2, 1, "+03:00">>

(***************************************************************************)
(* C14: in AwaitingKindOfHelpProviding exactly the three offering tokens,  *)
(* and in AwaitingKindOfHelpWanted exactly the two requesting tokens,      *)
(* store AwaitingContactInformation with the category of the token and     *)
(* contact None, and are answered with the full-name prompt; any other     *)
(* text stores nothing and leaves the selecting state.                     *)
(***************************************************************************)
MenuTokens(state) ==
    IF state.tag = "AwaitingKindOfHelpProviding" THEN {Driver, UsefulContacts, CollectHelp}
    ELSE IF state.tag = "AwaitingKindOfHelpWanted" THEN {Evacuation, NeedHumanitarian}
    ELSE {}
Selecting(state) == state.tag \in {"AwaitingKindOfHelpProviding", "AwaitingKindOfHelpWanted"}

C14_CategoryMenus ==
    \A w \in Slots :
        LET h == handlers[w] IN
        (h.pc # "idle" /\ Selecting(h.state) /\ h.msg.text # None)
        => LET t == Unwrap(h.msg.text)
               next == AwaitingContactInformation(CategoryOfToken(t), None)
           IN  IF t \in MenuTokens(h.state)
               THEN /\ Len(h.plan) = 2
                    /\ h.plan[1] = Update(next)
                    /\ h.plan[2].op = "send" /\ h.plan[2].text = FullNamePrompt
                    /\ h.ip >= 1 => store = next
                    /\ h.ip = 0 => store = h.state
               ELSE /\ ~HasOp(h, "update")
                    /\ ~HasOp(h, "save")
                    /\ store = h.state

C14_Witness ==
    \E w \in Slots :
        /\ handlers[w].pc = "ok"
        /\ handlers[w].state = AwaitingKindOfHelpProviding
        /\ handlers[w].msg.text = Some(CollectHelp)
        /\ store = AwaitingContactInformation("ProvidingCollectingHumanitarianHelp", None)

(***************************************************************************)
(* C15: in Start, 'I can help' stores AwaitingKindOfHelpProviding and is   *)
(* answered with the three offering options, 'I need help' stores          *)
(* AwaitingKindOfHelpWanted and is answered with the two requesting        *)
(* options, and any other text stores nothing and is answered with the     *)
(* top-level menu.  C15_StartMenuAnyChat states it for every chat (as      *)
(* claimed; refuted), C15_StartMenuPrivateChat for private chats.          *)
(***************************************************************************)
Buttons(markup) == {markup[i] : i \in 2..Len(markup)}
IsKeyboardOf(markup, tokens) ==
    Len(markup) >= 1 /\ markup[1] = "KeyboardMarkup" /\ Buttons(markup) = tokens

StartMenuRule(h) ==
    LET t == Unwrap(h.msg.text)
        next == IF t = OfferHelp THEN AwaitingKindOfHelpProviding
                ELSE AwaitingKindOfHelpWanted
    IN  IF t \in {OfferHelp, RequestHelp}
        THEN /\ Len(h.plan) = 2
             /\ h.plan[1] = Update(next)
             /\ h.plan[2].op = "send"
             /\ IsKeyboardOf(h.plan[2].markup, MenuTokens(next))
             /\ h.ip >= 1 => store = next
             /\ h.ip = 0 => store = Start
        ELSE /\ Len(h.plan) = 1
             /\ h.plan[1].op = "send"
             /\ h.plan[1].text = StartMenuText
             /\ IsKeyboardOf(h.plan[1].markup, {OfferHelp, RequestHelp})
             /\ store = Start

C15_StartMenuAnyChat ==
    \A w \in Slots :
        LET h == handlers[w] IN
        (h.pc # "idle" /\ h.state = Start /\ h.msg.text # None)
        => StartMenuRule(h)

C15_StartMenuPrivateChat ==
    \A w \in Slots :
        LET h == handlers[w] IN
        (h.pc # "idle" /\ h.state = Start /\ h.msg.text # None /\ h.msg.private)
        => StartMenuRule(h)

C15_Witness ==
    \E w \in Slots :
        /\ handlers[w].pc = "ok"
        /\ handlers[w].msg.private
        /\ handlers[w].state = Start
        /\ handlers[w].msg.text = Some(RequestHelp)
        /\ store = AwaitingKindOfHelpWanted

(***************************************************************************)
(* C16 (as claimed; refuted, under SpecTurns): two consecutive updates     *)
(* that find the same stored state and carry the same message have the     *)
(* same next state, the same reply and both or neither a commit, whatever  *)
(* the sink and the transport answer (a failure of the store itself set    *)
(* aside).  The state after the first handler is the one the second loads; *)
(* the state after the second is the store.                                *)
(***************************************************************************)
RepliesOf(h) == SelectSeq(SubSeq(h.plan, 1, Invoked(h)), LAMBDA e : e.op = "send")

C16_SameInputSameOutcome ==
    \A w1 \in Slots : \A w2 \in Slots :
        LET h1 == handlers[w1]
            h2 == handlers[w2]
        IN  (/\ w1 # w2
             /\ Finished(h1) /\ Finished(h2)
             /\ h2.seq = h1.seq + 1
             /\ h1.state = h2.state
             /\ h1.msg = h2.msg
             /\ FailedOp(h1) # "update" /\ FailedOp(h2) # "update")
            => /\ store = h2.state
               /\ RepliesOf(h1) = RepliesOf(h2)
               /\ InvokedOp(h1, "save") <=> InvokedOp(h2, "save")

(***************************************************************************)
(* SpecMalformed: the store holds, from the start, a collecting State      *)
(* whose contact is not a prefix of the field list (such a State is        *)
(* accepted by the deserializer, and no transition produces it); updates   *)
(* are then handled one at a time as in Spec.                              *)
(***************************************************************************)
MalformedContacts ==
    {c \in [full_name : {None, Some("Jane Doe")}, address : {None, Some("Jane Doe")},
            phone_numbers : {None, Some("Jane Doe")}, comments : {None, Some("Jane Doe")}] :
        ~IsPrefix(c)}

InitMalformed ==
    /\ store \in {AwaitingContactInformation(k, Some(c)) :
                    k \in HelpKind, c \in MalformedContacts}
    /\ sheet = <<>>
    /\ chat_private = TRUE
    /\ handlers = [w \in Slots |-> IdleHandler]
    /\ nevents = 0
    /\ pass_rows = 0
    /\ intake = NoIntake

NextMalformed ==
    \/ Receive(1, MaxMalformedEvents, FieldTexts)
    \/ DialogueUpdate(1)
    \/ DialogueUpdateFail(1)
    \/ SendMessage(1)
    \/ SendMessageFail(1)
    \/ ContactSave(1)
    \/ ContactSaveFail(1)

SpecMalformed == InitMalformed /\ [][NextMalformed]_vars

(***************************************************************************)
(* C17 (as claimed; refuted, under SpecMalformed): once the handler of a   *)
(* text has returned Ok for a loaded collecting State whose contact is     *)
(* malformed, the stored state is Start, and the handler has neither       *)
(* called Contact::save nor stored a contact with a further field.         *)
(***************************************************************************)
Malformed(state) ==
    Collecting(state) /\ state.contact # None /\ ~IsPrefix(Unwrap(state.contact))

C17_MalformedRecordResets ==
    \A w \in Slots :
        LET h == handlers[w] IN
        (h.pc = "ok" /\ Malformed(h.state) /\ h.msg.text # None)
        => /\ store = Start
           /\ ~HasOp(h, "save")
           /\ \A i \in 1..Len(h.plan) :
                h.plan[i].op = "update" => ~Collecting(h.plan[i].state)

(***************************************************************************)
(* C18: every change of a stored collecting State either stores a          *)
(* collecting State of the same category in which the first unset field    *)
(* holds the text of the update and every other field is as before, or     *)
(* stores Start, and that only from the confirmation step on Yes or No.    *)
(***************************************************************************)
FirstUnset(contact) ==
    IF contact = None THEN "full_name"
    ELSE LET c == Unwrap(contact)
         IN  IF c.full_name = None THEN "full_name"
             ELSE IF c.phone_numbers = None THEN "phone_numbers"
             ELSE IF c.address = None THEN "address"
             ELSE "comments"
ContactOrDefault(contact) == IF contact = None THEN DefaultContact ELSE Unwrap(contact)

C18_Step ==
    (Collecting(store) /\ store' # store)
    => \E w \in Slots :
         /\ handlers[w].pc = "running"
         /\ handlers[w].msg.text # None
         /\ \/ /\ Collecting(store')
               /\ store'.help_kind = store.help_kind
               /\ FieldCount(store.contact) < 4
               /\ store'.contact =
                    Some([ContactOrDefault(store.contact)
                            EXCEPT ![FirstUnset(store.contact)] = handlers[w].msg.text])
            \/ /\ store' = Start
               /\ AtConfirmation(store)
               /\ handlers[w].msg.text \in {Some(Yes), Some(No)}

C18_FieldStepsOnly == [][C18_Step]_vars

C18_Witness ==
    \E w \in Slots :
        /\ handlers[w].pc = "ok"
        /\ AtConfirmation(handlers[w].state)
        /\ handlers[w].msg.text = Some(No)
        /\ store = Start
        /\ sheet = <<>>

(***************************************************************************)
(* C19: whenever a handler invokes the send of the acknowledgment, its     *)
(* Contact::save and its dialogue.update(Start) have completed: the last   *)
(* row of the sheet is the record the handler loaded, in the spreadsheet   *)
(* of its category, and the stored state is Start.                         *)
(***************************************************************************)
C19_AcknowledgedOnlyAfterAppend ==
    \A w \in Slots :
        LET h == handlers[w] IN
        \A i \in 1..Len(h.plan) :
            (/\ h.plan[i].op = "send"
             /\ h.plan[i].text = ThanksText
             /\ \/ i <= Invoked(h)
                \/ h.pc = "running" /\ i = h.ip + 1)
            => /\ \E j \in 1..h.ip : j < i /\ h.plan[j].op = "save"
               /\ \E j \in 1..h.ip : j < i /\ h.plan[j] = Update(Start)
               /\ store = Start
               /\ AtConfirmation(h.state)
               /\ sheet # <<>>
               /\ LET c == Unwrap(h.state.contact)
                      row == sheet[Len(sheet)]
                  IN  /\ row.spreadsheet = DestinationOfCategory(h.state.help_kind)
                      /\ Len(row.values) = 1
                      /\ Len(row.values[1]) = 5
                      /\ SubSeq(row.values[1], 1, 4) =
                             <<Unwrap(c.full_name), Unwrap(c.phone_numbers),
                               Unwrap(c.address), Unwrap(c.comments)>>

C19_Witness ==
    \E w \in Slots :
        /\ handlers[w].pc = "ok"
        /\ handlers[w].ip = 3
        /\ handlers[w].plan[3] = Send(ThanksText, start_keyboard)
        /\ store = Start
        /\ Len(sheet) = 1

(***************************************************************************)
(* C20: in a chat that is not private the stored state is always Start,    *)
(* no row is appended, and every handler returns without storing or        *)
(* sending anything.                                                       *)
(***************************************************************************)
C20_NonPrivateChatIsDropped ==
    ~chat_private
    => /\ store = Start
       /\ sheet = <<>>
       /\ \A w \in Slots :
            /\ handlers[w].plan = <<>>
            /\ handlers[w].pc \in {"idle", "ok"}
            /\ handlers[w].state = Start

C20_Witness ==
    /\ ~chat_private
    /\ nevents >= 3
    /\ handlers[1].pc = "ok"
    /\ handlers[1].msg.text = Some(OfferHelp)
    /\ store = Start

====
